---- MODULE Spec2Model ----
(***************************************************************************)
(* A model of the secret generator controller (main.go).                   *)
(*                                                                         *)
(* The controller watches the Secrets of a namespace through an informer   *)
(* and runs GeneratorController.SecretAdded on every add and update        *)
(* notification.  SecretAdded decides from three annotations whether the   *)
(* secret needs a freshly generated value, builds an updated copy and      *)
(* submits it with Update, which the API server accepts only when the      *)
(* copy's resourceVersion is still the stored one.                         *)
(*                                                                         *)
(* The API server, the informer and the actors that create and edit        *)
(* secrets are the environment: the store is a map from names to objects,  *)
(* the informer's notifications are a set of events that is only ever      *)
(* added to (delivery is at least once, in any order, arbitrarily stale).  *)
(***************************************************************************)
EXTENDS Integers, Sequences, FiniteSets, TLC

\* ------------------------------------------------------------------ bounds

\* The -secret-length flag the model configures.
ConfiguredLength == 2
\* How many writes actors other than the controller make, creations included.
MaxExt == 2
\* How many reconciliations may end in an error after reading the random source.
MaxFail == 1

\* ------------------------------------------------------- program constants

SecretGenerateAnnotation == "secret-generator.v1.mittwald.de/autogenerate"

SecretGeneratedAtAnnotation == "secret-generator.v1.mittwald.de/autogenerate-generated-at"

SecretRegenerateAnnotation == "secret-generator.v1.mittwald.de/regenerate"

runes ==
  << "a","b","c","d","e","f","g","h","i","j","k","l","m",
     "n","o","p","q","r","s","t","u","v","w","x","y","z",
     "A","B","C","D","E","F","G","H","I","J","K","L","M",
     "N","O","P","Q","R","S","T","U","V","W","X","Y","Z",
     "0","1","2","3","4","5","6","7","8","9" >>

\* ------------------------------------------------------------ Go's values

\* The empty map, and Go's map operations.  A nil map reads as the empty
\* map; writing to it panics, which is why Data keeps its nil-ness apart.
EmptyMap == [x \in {} |-> ""]

\* v, ok := m[k]
MapGet(m, k) ==
  IF k \in DOMAIN m THEN [val |-> m[k], ok |-> TRUE]
                    ELSE [val |-> "", ok |-> FALSE]

\* m[k] = v
MapSet(m, k, v) == [x \in (DOMAIN m) \cup {k} |-> IF x = k THEN v ELSE m[x]]

\* delete(m, k)
MapDelete(m, k) == [x \in (DOMAIN m) \ {k} |-> m[x]]

\* A v1.Secret: its name (namespace/name), its annotations, its Data
\* (isNil: the Go map is nil) and its resourceVersion.
Secret(name, ann, isNil, data, ver) ==
  [name |-> name, ann |-> ann, dataNil |-> isNil, data |-> data, ver |-> ver]

\* No object under a name.
NoSecret == [gone |-> TRUE]

\* ------------------------------------------------------- generateSecret

\* rand.Int(rand.Reader, max): the k-th value read from the random source,
\* reduced below max.  The source is a stream that does not repeat within
\* the model's bounds, so two tokens never start with the same rune: tokens
\* are fresh values.
RandInt(k, max) == k % max

\* generateSecret with a loop that stops one rune early.
generateSecretOneShort(length, pos, failAt) ==
  IF failAt \in 1..length
    THEN [val |-> <<>>, err |-> TRUE, read |-> failAt - 1]
    ELSE [val |-> [i \in 1..(length - 1) |->
                     runes[RandInt(pos + i - 1, Len(runes)) + 1]],
          err |-> FALSE,
          read |-> length]

\* generateSecret returning what it has drawn, and no error, when rand.Int
\* fails.
generateSecretIgnoringError(length, pos, failAt) ==
  IF failAt \in 1..length
    THEN [val |-> [i \in 1..(failAt - 1) |->
                     runes[RandInt(pos + i - 1, Len(runes)) + 1]],
          err |-> FALSE,
          read |-> failAt - 1]
    ELSE [val |-> [i \in 1..length |-> runes[RandInt(pos + i - 1, Len(runes)) + 1]],
          err |-> FALSE,
          read |-> length]

\* generateSecret starting its loop again when rand.Int fails.
generateSecretRetrying(length, pos, failAt) ==
  IF failAt \in 1..length
    THEN [val |-> [i \in 1..length |->
                     runes[RandInt(pos + failAt + i - 2, Len(runes)) + 1]],
          err |-> FALSE,
          read |-> failAt - 1 + length]
    ELSE [val |-> [i \in 1..length |-> runes[RandInt(pos + i - 1, Len(runes)) + 1]],
          err |-> FALSE,
          read |-> length]

\* generateSecret(length), reading the random source from position pos.
\* failAt = 0: every rand.Int succeeds; failAt = j: the j-th rand.Int returns
\* an error after j - 1 runes were drawn.  val is the string, err the error,
\* read the number of values consumed.
generateSecret(length, pos, failAt) ==
  IF failAt \in 1..length
    THEN [val |-> <<>>, err |-> TRUE, read |-> failAt - 1]
    ELSE [val |-> [i \in 1..length |-> runes[RandInt(pos + i - 1, Len(runes)) + 1]],
          err |-> FALSE,
          read |-> length]

\* time.Now().String() when the clock shows c.
TimeNowString(c) == "2017-06-01 12:00:0" \o ToString(c)

\* ---------------------------------------------------------- SecretAdded

\* util.CopyObjToSecret(secret): a deep copy of the object, or an error.
\* shared: the copy's Annotations and Data are the maps of the original.
CopyObjToSecret(secret, copyErr) ==
  [obj |-> secret, err |-> copyErr, shared |-> FALSE]

\* GenerateTarget with the ok of the lookup ignored.
GenerateTargetIgnoringOk(secret) ==
  [val |-> MapGet(secret.ann, SecretGenerateAnnotation).val, ok |-> TRUE]

\* val, ok := secret.Annotations[SecretGenerateAnnotation]
GenerateTarget(secret) == MapGet(secret.ann, SecretGenerateAnnotation)

\* RegenerateNeeded with the test of the generated-at annotation inverted.
RegenerateNeededInverted(secret) ==
  LET r0 == FALSE
      r1 == IF MapGet(secret.ann, SecretGeneratedAtAnnotation).ok THEN TRUE ELSE r0
      r2 == IF MapGet(secret.ann, SecretRegenerateAnnotation).ok THEN TRUE ELSE r1
  IN  r2

\* RegenerateNeeded testing the annotations' values, not the ok of the
\* lookups: an annotation with an empty value counts as missing.
RegenerateNeededByValue(secret) ==
  LET r0 == FALSE
      r1 == IF MapGet(secret.ann, SecretGeneratedAtAnnotation).val = "" THEN TRUE ELSE r0
      r2 == IF MapGet(secret.ann, SecretRegenerateAnnotation).val # "" THEN TRUE ELSE r1
  IN  r2

\* RegenerateNeeded with regenerateNeeded starting as true.
RegenerateNeededAlways(secret) ==
  LET r0 == TRUE
      r1 == IF ~MapGet(secret.ann, SecretGeneratedAtAnnotation).ok THEN TRUE ELSE r0
      r2 == IF MapGet(secret.ann, SecretRegenerateAnnotation).ok THEN TRUE ELSE r1
  IN  r2

\* regenerateNeeded, as SecretAdded computes it from the annotations.
RegenerateNeeded(secret) ==
  LET r0 == FALSE
      r1 == IF ~MapGet(secret.ann, SecretGeneratedAtAnnotation).ok THEN TRUE ELSE r0
      r2 == IF MapGet(secret.ann, SecretRegenerateAnnotation).ok THEN TRUE ELSE r1
  IN  r2

\* UpdatedAnnotations without the generated-at annotation.
UpdatedAnnotationsNoGeneratedAt(ann, now) ==
  IF MapGet(ann, SecretRegenerateAnnotation).ok
    THEN MapDelete(ann, SecretRegenerateAnnotation)
    ELSE ann

\* UpdatedAnnotations with the regenerate annotation left in place.
UpdatedAnnotationsKeepingRequest(ann, now) ==
  MapSet(ann, SecretGeneratedAtAnnotation, now)

\* The annotations of secretCopy after the regenerate annotation is removed
\* and the generated-at annotation is set.
UpdatedAnnotations(ann, now) ==
  LET removed == IF MapGet(ann, SecretRegenerateAnnotation).ok
                   THEN MapDelete(ann, SecretRegenerateAnnotation)
                   ELSE ann
  IN  MapSet(removed, SecretGeneratedAtAnnotation, now)

\* UpdatedSecret building a new object, which has no resourceVersion, instead
\* of changing the copy.
UpdatedSecretWithoutVersion(secretCopy, val, newPassword, now) ==
  IF secretCopy.dataNil
    THEN [panic |-> TRUE, obj |-> secretCopy]
    ELSE [panic |-> FALSE,
          obj |-> [secretCopy EXCEPT
                     !.ann = UpdatedAnnotations(secretCopy.ann, now),
                     !.data = MapSet(secretCopy.data, val, newPassword),
                     !.ver = 0]]

\* UpdatedSecret replacing Data by a map that holds the new value alone.
UpdatedSecretOnlyTarget(secretCopy, val, newPassword, now) ==
  IF secretCopy.dataNil
    THEN [panic |-> TRUE, obj |-> secretCopy]
    ELSE [panic |-> FALSE,
          obj |-> [secretCopy EXCEPT
                     !.ann = UpdatedAnnotations(secretCopy.ann, now),
                     !.data = MapSet(EmptyMap, val, newPassword)]]

\* secretCopy after the annotations and Data[val] are set.  The assignment to
\* an entry of a nil Data map panics.
UpdatedSecret(secretCopy, val, newPassword, now) ==
  IF secretCopy.dataNil
    THEN [panic |-> TRUE, obj |-> secretCopy]
    ELSE [panic |-> FALSE,
          obj |-> [secretCopy EXCEPT
                     !.ann = UpdatedAnnotations(secretCopy.ann, now),
                     !.data = MapSet(secretCopy.data, val, newPassword)]]

\* DeliveredAfter with the assignments made to secret, not to secretCopy.
DeliveredAfterWritingThrough(secret, shared, written) == written

\* The delivered object, which the informer's cache holds, after the
\* assignments that left secretCopy as written: they go through secretCopy,
\* so they reach the delivered object only if the two share their maps.
DeliveredAfter(secret, shared, written) ==
  IF shared THEN written ELSE secret

\* What one call of SecretAdded(secret) does before it returns or reaches
\* Update: the outcome, the object it submits (submit), the token it
\* generated, what it consumed (random values read, clock readings) and
\* the delivered object as the call leaves it (cached).
\*   "unmanaged"  no autogenerate annotation: return
\*   "settled"    regenerateNeeded is false: return
\*   "copyerr"    CopyObjToSecret failed: return
\*   "generr"     generateSecret failed: return
\*   "panic"      Data is nil
\*   "update"     secretCopy goes to Update
Reconcile(secret, length, pos, now, copyErr, failAt) ==
  LET gen  == GenerateTarget(secret)
      cp   == CopyObjToSecret(secret, copyErr)
      pw   == generateSecret(length, pos, failAt)
      upd  == UpdatedSecret(cp.obj, gen.val, pw.val, TimeNowString(now))
      quiet(o) == [outcome |-> o, submit |-> NoSecret, token |-> <<>>,
                   read |-> 0, ticks |-> 0, cached |-> secret]
  IN  IF ~gen.ok THEN quiet("unmanaged")
      ELSE IF ~RegenerateNeeded(secret) THEN quiet("settled")
      ELSE IF cp.err THEN quiet("copyerr")
      ELSE IF pw.err THEN [quiet("generr") EXCEPT !.read = pw.read]
      ELSE IF upd.panic
        THEN [outcome |-> "panic", submit |-> NoSecret, token |-> pw.val,
              read |-> pw.read, ticks |-> 1,
              cached |-> DeliveredAfter(secret, cp.shared,
                           [cp.obj EXCEPT !.ann = UpdatedAnnotations(@, TimeNowString(now))])]
        ELSE [outcome |-> "update", submit |-> upd.obj, token |-> pw.val,
              read |-> pw.read, ticks |-> 1,
              cached |-> DeliveredAfter(secret, cp.shared, upd.obj)]

\* ------------------------------------------------------------ the store

\* Secrets(ns).Update(obj) on the API server: the object must exist and, when
\* obj carries a resourceVersion, it must be the stored one; the request may
\* also fail in transit.  The stored object gets the next revision.
UpdateAccepted(stored, obj, transportErr) ==
  /\ ~transportErr
  /\ stored # NoSecret
  /\ obj.ver = 0 \/ obj.ver = stored.ver

\* The store after Update(obj) was accepted: obj replaces the stored object
\* and gets the next revision as its resourceVersion.
StoreAfterUpdate(st, rev, obj) ==
  [st EXCEPT ![obj.name] = [obj EXCEPT !.ver = rev[obj.name] + 1]]

\* ------------------------------------------------------ the environment

\* The secrets' names (namespace/name).  SecretAdded reads the object it is
\* given and writes, through Update, the object of the same name only.
Names == {"default/db"}

\* A value an actor other than the controller puts into Data.  It is longer
\* than any token the model generates, so it equals none.
ExtValue == <<"h","u","n","t","e","r","2","!">>

OwnerAnnotation == "example.com/owner"

\* The secrets that actors create, as annotations and Data (isNil: no data
\* at all, the Go map is nil).
CreatedSecrets ==
  LET owner    == [k \in {OwnerAnnotation} |-> "ops"]
      managed  == MapSet(owner, SecretGenerateAnnotation, "password")
      user     == [k \in {"username"} |-> ExtValue]
      userPass == [k \in {"username", "password"} |-> ExtValue]
  IN
  { [ann |-> owner, isNil |-> FALSE, data |-> user],
    [ann |-> MapSet(owner, SecretRegenerateAnnotation, "yes"),
     isNil |-> FALSE, data |-> userPass],
    [ann |-> managed, isNil |-> FALSE, data |-> EmptyMap],
    [ann |-> managed, isNil |-> FALSE, data |-> userPass],
    [ann |-> managed, isNil |-> TRUE, data |-> EmptyMap],
    [ann |-> MapSet(owner, SecretGenerateAnnotation, ""),
     isNil |-> FALSE, data |-> user],
    [ann |-> MapSet(managed, SecretGeneratedAtAnnotation, ""),
     isNil |-> FALSE, data |-> userPass],
    [ann |-> MapSet(managed, SecretRegenerateAnnotation, ""),
     isNil |-> FALSE, data |-> user] }

\* The edits actors make to a stored secret's annotations and Data.
Edits ==
  { [op |-> "annotate", key |-> SecretRegenerateAnnotation, val |-> "yes"],
    [op |-> "annotate", key |-> SecretGenerateAnnotation, val |-> "password"],
    [op |-> "unannotate", key |-> SecretGenerateAnnotation, val |-> ""],
    [op |-> "unannotate", key |-> SecretGeneratedAtAnnotation, val |-> ""],
    [op |-> "setdata", key |-> "password", val |-> ""] }

Edited(obj, e) ==
  CASE e.op = "annotate"   -> [obj EXCEPT !.ann = MapSet(obj.ann, e.key, e.val)]
    [] e.op = "unannotate" -> [obj EXCEPT !.ann = MapDelete(obj.ann, e.key)]
    [] e.op = "setdata"    -> [obj EXCEPT !.dataNil = FALSE,
                                          !.data = MapSet(obj.data, e.key, ExtValue)]

\* ---------------------------------------------------------------- state

VARIABLES
  secretLength,  \* the -secret-length flag
  store,         \* the API server: name -> Secret or NoSecret
  revision,      \* name -> the last resourceVersion the server gave out
  feed,          \* the notifications the informer has to deliver
  entropy,       \* how many values were read from rand.Reader
  clock,         \* how many times time.Now() was read
  crashed,       \* the process died of a panic
  extWrites,     \* writes by other actors so far
  fails,         \* reconciliations that ended in an error so far
  lastOp,        \* the SecretAdded call that just returned
  everManaged,   \* names whose stored secret ever carried the autogenerate annotation
  engineWrote,   \* the objects stored by the controller's accepted Updates
  regenDone,     \* name -> accepted Updates of snapshots carrying the regenerate
                 \* annotation, since the annotation last appeared on the secret
  peerCrashed,   \* the second controller process died of a panic
  landed,        \* the accepted Updates: who sent it, for which snapshot
  sinceExt       \* name -> accepted Updates since the last write by another actor

vars == << secretLength, store, revision, feed, entropy, clock, crashed,
           extWrites, fails, lastOp, everManaged, engineWrote, regenDone,
           peerCrashed, landed, sinceExt >>

\* The controller processes: the one main() starts, and a second one started
\* alongside it against the same API server.
Engines == {1, 2}

Idle == [outcome |-> "none"]

IsManaged(obj) == obj # NoSecret /\ SecretGenerateAnnotation \in DOMAIN obj.ann

HasRequest(obj) == obj # NoSecret /\ SecretRegenerateAnnotation \in DOMAIN obj.ann

HasGeneratedAt(obj) == obj # NoSecret /\ SecretGeneratedAtAnnotation \in DOMAIN obj.ann

Init ==
  /\ secretLength = ConfiguredLength
  /\ store = [n \in Names |-> NoSecret]
  /\ revision = [n \in Names |-> 0]
  /\ feed = {}
  /\ entropy = 0
  /\ clock = 0
  /\ crashed = FALSE
  /\ extWrites = 0
  /\ fails = 0
  /\ lastOp = Idle
  /\ everManaged = {}
  /\ engineWrote = {}
  /\ regenDone = [n \in Names |-> 0]
  /\ peerCrashed = FALSE
  /\ landed = {}
  /\ sinceExt = [n \in Names |-> 0]

\* What a write by another actor leaves of the bookkeeping.
ExtWrite(n, old, new) ==
  /\ extWrites < MaxExt
  /\ extWrites' = extWrites + 1
  /\ store' = [store EXCEPT ![n] = new]
  /\ revision' = [revision EXCEPT ![n] = @ + 1]
  /\ lastOp' = Idle
  /\ everManaged' = IF IsManaged(new) THEN everManaged \cup {n} ELSE everManaged
  /\ regenDone' = IF HasRequest(new) /\ ~HasRequest(old)
                    THEN [regenDone EXCEPT ![n] = 0]
                    ELSE regenDone
  /\ sinceExt' = [sinceExt EXCEPT ![n] = 0]
  /\ UNCHANGED << secretLength, entropy, clock, crashed, fails, engineWrote,
                  peerCrashed, landed >>

\* An actor creates a secret.
ExtCreate(n) ==
  /\ store[n] = NoSecret
  /\ \E c \in CreatedSecrets :
       LET new == Secret(n, c.ann, c.isNil, c.data, revision[n] + 1) IN
       /\ ExtWrite(n, NoSecret, new)
       /\ feed' = feed \cup {[type |-> "add", old |-> NoSecret, new |-> new]}

\* An actor edits a stored secret (kubectl annotate, kubectl edit).  An edit
\* that changes nothing is no write: the server keeps the resourceVersion.
ExtUpdate(n) ==
  /\ store[n] # NoSecret
  /\ \E e \in Edits :
       LET new == [Edited(store[n], e) EXCEPT !.ver = revision[n] + 1] IN
       /\ Edited(store[n], e) # store[n]
       /\ ExtWrite(n, store[n], new)
       /\ feed' = feed \cup {[type |-> "update", old |-> store[n], new |-> new]}

\* An actor deletes a secret.
ExtDelete(n) ==
  /\ store[n] # NoSecret
  /\ ExtWrite(n, store[n], NoSecret)
  /\ feed' = feed \cup {[type |-> "delete", old |-> store[n], new |-> NoSecret]}

\* ----------------------------------------------------------- the handlers

\* The controller process by has died.
Dead(by) == IF by = 1 THEN crashed ELSE peerCrashed

\* GeneratorController.SecretAdded(secret) in the process by, called for the
\* notification event, to its return or its panic.  copyErr, failAt and
\* transportErr are what the call meets: an error of CopyObjToSecret, of the
\* failAt-th rand.Int, of the request to the server.
SecretAddedWith(by, event, secret, copyErr, failAt, transportErr) ==
  \E r \in {Reconcile(secret, secretLength, entropy, clock, copyErr, failAt)} :
  LET n        == secret.name
      accepted == r.outcome = "update"
                  /\ UpdateAccepted(store[n], r.submit, transportErr)
      wasted   == r.read > 0 /\ ~accepted /\ r.outcome # "panic"
      after    == IF accepted THEN StoreAfterUpdate(store, revision, r.submit)
                              ELSE store
  IN
  /\ ~Dead(by)
  /\ wasted => fails < MaxFail
  /\ fails' = IF wasted THEN fails + 1 ELSE fails
  /\ store' = after
  /\ revision' = IF accepted THEN [revision EXCEPT ![n] = @ + 1] ELSE revision
  /\ feed' = IF accepted
               THEN feed \cup {[type |-> "update", old |-> store[n], new |-> after[n]]}
               ELSE feed
  /\ entropy' = entropy + r.read
  /\ clock' = clock + r.ticks
  /\ crashed' = IF by = 1 THEN r.outcome = "panic" ELSE crashed
  /\ peerCrashed' = IF by = 2 THEN r.outcome = "panic" ELSE peerCrashed
  /\ lastOp' = [by |-> by, event |-> event, name |-> n, snap |-> secret,
                outcome |-> r.outcome, submit |-> r.submit, token |-> r.token,
                read |-> r.read, ticks |-> r.ticks, cached |-> r.cached,
                accepted |-> accepted, pre |-> store[n], post |-> after[n]]
  /\ engineWrote' = IF accepted THEN engineWrote \cup {after[n]} ELSE engineWrote
  /\ regenDone' = IF accepted /\ HasRequest(secret)
                    THEN [regenDone EXCEPT ![n] = @ + 1]
                    ELSE regenDone
  /\ landed' = IF accepted
                 THEN landed \cup {[by |-> by, name |-> n, base |-> secret.ver,
                                    token |-> r.token, obj |-> after[n]]}
                 ELSE landed
  /\ sinceExt' = IF accepted THEN [sinceExt EXCEPT ![n] = @ + 1] ELSE sinceExt
  /\ UNCHANGED << secretLength, extWrites, everManaged >>

\* What a call can meet.  It ends at the first error, so one error at most
\* makes a difference: none, the copy's, the request's, or that of rand.Int
\* in the first or in the last round of generateSecret's loop; and a call that
\* returns before the copy meets none.
Met(secret) ==
  IF ~GenerateTarget(secret).ok \/ ~RegenerateNeeded(secret)
    THEN { [copyErr |-> FALSE, failAt |-> 0, transportErr |-> FALSE] }
    ELSE { [copyErr |-> FALSE, failAt |-> 0, transportErr |-> FALSE],
           [copyErr |-> TRUE,  failAt |-> 0, transportErr |-> FALSE],
           [copyErr |-> FALSE, failAt |-> 0, transportErr |-> TRUE] }
         \cup { [copyErr |-> FALSE, failAt |-> j, transportErr |-> FALSE] :
                  j \in {1, secretLength} }

SecretAdded(by, event, secret) ==
  \E m \in Met(secret) :
    SecretAddedWith(by, event, secret, m.copyErr, m.failAt, m.transportErr)

\* The notifications of the given type the informer has to deliver.
Notifications(type) == {e \in feed : e.type = type}

\* AddFunc: gc.SecretAdded, in the process by.
AddFunc(by) ==
  \E e \in Notifications("add") : SecretAdded(by, e, e.new)

\* UpdateFunc handing the old object to SecretAdded.
UpdateFuncPassingOld(by) ==
  \E e \in Notifications("update") : SecretAdded(by, e, e.old)

\* UpdateFunc: func(old, new) { gc.SecretAdded(new) }, in the process by.  A
\* resync calls it with old = new = an object the informer was notified of,
\* which is the call a repeated delivery of that notification makes.
UpdateFunc(by) ==
  \E e \in Notifications("update") : SecretAdded(by, e, e.new)

\* DeleteFunc: func(new) {}, in the process by.
DeleteFunc(by) ==
  \E e \in Notifications("delete") : ~Dead(by) /\ UNCHANGED vars

Next ==
  \/ \E n \in Names : ExtCreate(n)
  \/ \E n \in Names : ExtUpdate(n)
  \/ \E n \in Names : ExtDelete(n)
  \/ AddFunc(1)
  \/ UpdateFunc(1)
  \/ DeleteFunc(1)

Spec == Init /\ [][Next]_vars

\* The notification that announced the stored state of a secret.
LatestNotification(n) == CHOOSE e \in feed : e.new = store[n]

\* The informer delivers the stored state of a secret (the notification of
\* its last write, or the resync), and the call meets no error.
DeliverLatest(n) ==
  /\ store[n] # NoSecret
  /\ SecretAddedWith(1, LatestNotification(n), store[n], FALSE, 0, FALSE)

\* The informer keeps delivering: every write is notified and every 30
\* minutes the cache is resynced, so the latest state of each secret is
\* delivered again and again, and errors do not last forever.
FairSpec == Spec /\ \A n \in Names : WF_vars(DeliverLatest(n))

\* Two controller processes run against the same API server, each with its
\* own informer: both are notified of every write and each calls its handlers
\* in its own time.  A call touches what the processes share, the stored
\* secret, in its Update request alone, which the server handles as one step.
\* The calls meet no error but the server's rejection of the request.
AddFuncOf(by) ==
  \E e \in Notifications("add") : SecretAddedWith(by, e, e.new, FALSE, 0, FALSE)

UpdateFuncOf(by) ==
  \E e \in Notifications("update") : SecretAddedWith(by, e, e.new, FALSE, 0, FALSE)

TwoEngineNext ==
  \/ \E n \in Names : ExtCreate(n)
  \/ \E n \in Names : ExtUpdate(n)
  \/ \E n \in Names : ExtDelete(n)
  \/ \E by \in Engines : AddFuncOf(by)
  \/ \E by \in Engines : UpdateFuncOf(by)
  \/ \E by \in Engines : DeleteFunc(by)

TwoEngineSpec == Init /\ [][TwoEngineNext]_vars

\* ----------------------------------------------------------- properties

\* The call that just returned was given a snapshot (lastOp is not Idle).
Called == lastOp.outcome # "none"

\* A snapshot no reconciliation acts on: managed, generated, nothing requested.
IsSettled(obj) == IsManaged(obj) /\ HasGeneratedAt(obj) /\ ~HasRequest(obj)

\* C1: a snapshot without the autogenerate annotation makes SecretAdded
\* return at once: nothing is read from the random source, nothing is
\* submitted and the stored secret is what it was, whatever other annotations
\* the snapshot carries; an Update is accepted only over a stored secret that
\* carries the annotation, so the controller has stored no object under a
\* name whose secret never carried it.
C1_UnmanagedUntouched ==
  /\ (Called /\ ~IsManaged(lastOp.snap)) =>
       /\ lastOp.outcome = "unmanaged"
       /\ lastOp.submit = NoSecret
       /\ lastOp.read = 0
       /\ ~lastOp.accepted
       /\ lastOp.post = lastOp.pre
       /\ store[lastOp.name] = lastOp.pre
  /\ (Called /\ lastOp.accepted) => IsManaged(lastOp.pre)
  /\ \A o \in engineWrote : o.name \in everManaged

\* C1's case: an unmanaged snapshot that carries the regenerate annotation
\* and no generated-at annotation was delivered.
C1_Witness ==
  /\ Called
  /\ ~IsManaged(lastOp.snap)
  /\ HasRequest(lastOp.snap)
  /\ ~HasGeneratedAt(lastOp.snap)
  /\ lastOp.snap = store[lastOp.name]

\* C2: a snapshot with the autogenerate and the generated-at annotation and
\* without the regenerate annotation makes SecretAdded a no-op, at every
\* delivery: no token is generated, nothing is submitted, the stored secret
\* keeps its Data, its annotations and its resourceVersion.
C2_SettledIsNoOp ==
  (Called /\ IsSettled(lastOp.snap)) =>
    /\ lastOp.outcome = "settled"
    /\ lastOp.token = <<>>
    /\ lastOp.read = 0
    /\ lastOp.submit = NoSecret
    /\ ~lastOp.accepted
    /\ lastOp.post = lastOp.pre
    /\ store[lastOp.name] = lastOp.pre

\* C2's case: a settled snapshot was delivered, here one that an actor
\* settled by hand and edited since (the delivery is a stale one).
C2_Witness ==
  /\ Called
  /\ IsSettled(lastOp.snap)
  /\ lastOp.snap.ann[SecretGeneratedAtAnnotation] = ""
  /\ lastOp.pre # NoSecret
  /\ lastOp.pre.ver > lastOp.snap.ver

\* C3: every object SecretAdded submits is settled, so is every object the
\* controller's Updates stored, and the delivery of such an object (the
\* notification of the controller's own write) is a no-op whatever the call
\* meets.
C3_OwnWriteIsSettled ==
  /\ (Called /\ lastOp.outcome = "update") => IsSettled(lastOp.submit)
  /\ \A o \in engineWrote :
       /\ IsSettled(o)
       /\ \A m \in Met(o) :
            Reconcile(o, secretLength, entropy, clock, m.copyErr, m.failAt).outcome
              = "settled"
  /\ (Called /\ lastOp.snap \in engineWrote) =>
       /\ lastOp.outcome = "settled"
       /\ lastOp.submit = NoSecret
       /\ lastOp.post = lastOp.pre

\* C3's case: the object the controller stored came back to SecretAdded
\* while it was still the stored one.
C3_Witness ==
  /\ Called
  /\ lastOp.snap \in engineWrote
  /\ lastOp.snap = store[lastOp.name]
  /\ lastOp.outcome = "settled"

\* C4: once the other actors have stopped writing, every stored secret with
\* the autogenerate annotation reaches and keeps a state with the
\* generated-at annotation and without the regenerate annotation.
C4_Converges ==
  <>[](\A n \in Names : IsManaged(store[n]) => IsSettled(store[n]))

\* What holds instead: the managed secrets settle unless the process has
\* died of the panic on a nil Data map.
C4_ConvergesUnlessCrashed ==
  <>[](crashed \/ \A n \in Names : IsManaged(store[n]) => IsSettled(store[n]))

\* C5: between two appearances of the regenerate annotation on a secret, at
\* most one Update of a snapshot that carries the annotation is accepted,
\* however often and however late such snapshots are delivered.
C5_OneRegenerationPerRequest ==
  \A n \in Names : regenDone[n] <= 1

\* C5's case: a request was honoured once, and a later delivery of a snapshot
\* that still carries the request went as far as Update and was rejected.
C5_Witness ==
  /\ Called
  /\ regenDone[lastOp.name] = 1
  /\ HasRequest(lastOp.snap)
  /\ lastOp.outcome = "update"
  /\ ~lastOp.accepted
  /\ lastOp.pre # NoSecret
  /\ ~HasRequest(lastOp.pre)

\* The control annotations SecretAdded may change.
ControlAnnotations == {SecretGeneratedAtAnnotation, SecretRegenerateAnnotation}

\* C6: the object SecretAdded submits is the snapshot with Data[val], the
\* generated-at and the regenerate annotation changed, val being the value of
\* the autogenerate annotation: same name, same resourceVersion, the other
\* Data keys and the other annotations as they were, no key added but val, none
\* removed; and an accepted Update stores that object.
C6_OnlyTargetAndMarkersChange ==
  (Called /\ lastOp.outcome = "update") =>
    LET snap == lastOp.snap
        sub  == lastOp.submit
        val  == snap.ann[SecretGenerateAnnotation]
    IN
    /\ sub.name = snap.name
    /\ sub.ver = snap.ver
    /\ sub.dataNil = snap.dataNil
    /\ DOMAIN sub.data = (DOMAIN snap.data) \cup {val}
    /\ \A k \in (DOMAIN snap.data) \ {val} : sub.data[k] = snap.data[k]
    /\ (DOMAIN sub.ann) \ ControlAnnotations = (DOMAIN snap.ann) \ ControlAnnotations
    /\ \A k \in (DOMAIN snap.ann) \ ControlAnnotations : sub.ann[k] = snap.ann[k]
    /\ lastOp.accepted => lastOp.post = [sub EXCEPT !.ver = lastOp.post.ver]

\* C6's case: an Update was accepted for a snapshot with another Data key,
\* another annotation and the regenerate annotation.
C6_Witness ==
  /\ Called
  /\ lastOp.accepted
  /\ HasRequest(lastOp.snap)
  /\ "username" \in DOMAIN lastOp.snap.data
  /\ OwnerAnnotation \in DOMAIN lastOp.snap.ann

\* The runes of the alphabet.
Alphabet == {runes[i] : i \in 1..Len(runes)}

\* C7: when the Update for a snapshot with autogenerate = k and without
\* generated-at is accepted, the stored secret has the generated-at
\* annotation and Data[k] is the generated token: secretLength runes, each of
\* the alphabet, whatever Data[k] was.
C7_FirstGeneration ==
  (Called /\ lastOp.accepted /\ ~HasGeneratedAt(lastOp.snap)) =>
    LET k    == lastOp.snap.ann[SecretGenerateAnnotation]
        post == lastOp.post
    IN
    /\ store[lastOp.name] = post
    /\ HasGeneratedAt(post)
    /\ k \in DOMAIN post.data
    /\ post.data[k] = lastOp.token
    /\ Len(post.data[k]) = secretLength
    /\ \A i \in 1..Len(post.data[k]) : post.data[k][i] \in Alphabet

\* C7's case: the first generation for a secret whose Data was empty (and
\* not nil) was stored.
C7_Witness ==
  /\ Called
  /\ lastOp.accepted
  /\ ~HasGeneratedAt(lastOp.snap)
  /\ ~HasRequest(lastOp.snap)
  /\ ~lastOp.snap.dataNil
  /\ lastOp.snap.data = EmptyMap
  /\ lastOp.snap.ann[SecretGenerateAnnotation] = "password"

\* C8: when the Update for a snapshot with autogenerate = k, generated-at
\* and the regenerate annotation is accepted, the stored secret holds the new
\* token in Data[k], which is not the value Data[k] had, has lost the
\* regenerate annotation and has the generated-at annotation.
C8_Regeneration ==
  (Called /\ lastOp.accepted /\ HasGeneratedAt(lastOp.snap) /\ HasRequest(lastOp.snap)) =>
    LET k    == lastOp.snap.ann[SecretGenerateAnnotation]
        post == lastOp.post
    IN
    /\ store[lastOp.name] = post
    /\ post.data[k] = lastOp.token
    /\ Len(lastOp.token) = secretLength
    /\ k \in DOMAIN lastOp.pre.data => post.data[k] # lastOp.pre.data[k]
    /\ ~HasRequest(post)
    /\ HasGeneratedAt(post)

\* C8's case: the secret was settled by the controller, an actor added the
\* regenerate annotation, and the regeneration was stored over the token of
\* the first generation.
C8_Witness ==
  /\ Called
  /\ lastOp.accepted
  /\ HasGeneratedAt(lastOp.snap)
  /\ HasRequest(lastOp.snap)
  /\ \E o \in engineWrote :
       /\ o.name = lastOp.name
       /\ o.ver < lastOp.snap.ver
       /\ "password" \in DOMAIN o.data
       /\ "password" \in DOMAIN lastOp.pre.data
       /\ o.data["password"] = lastOp.pre.data["password"]
  /\ lastOp.snap.ann[SecretGenerateAnnotation] = "password"

\* The snapshot of the call that just returned was not the stored state.
Stale == lastOp.pre = NoSecret \/ lastOp.snap.ver # lastOp.pre.ver

\* C9: an Update that is not accepted leaves the stored secret as it was, an
\* Update for a snapshot that is not the stored state is never accepted, and
\* the snapshot delivered again is decided as before: it goes to Update with
\* the same resourceVersion, the same keys.
C9_RejectedWriteChangesNothing ==
  /\ (Called /\ lastOp.outcome = "update" /\ ~lastOp.accepted) =>
       /\ lastOp.post = lastOp.pre
       /\ store[lastOp.name] = lastOp.pre
       /\ LET again == Reconcile(lastOp.snap, secretLength, entropy, clock, FALSE, 0)
          IN  /\ again.outcome = "update"
              /\ again.submit.ver = lastOp.submit.ver
              /\ DOMAIN again.submit.ann = DOMAIN lastOp.submit.ann
              /\ DOMAIN again.submit.data = DOMAIN lastOp.submit.data
  /\ (Called /\ Stale) =>
       /\ ~lastOp.accepted
       /\ lastOp.post = lastOp.pre
       /\ store[lastOp.name] = lastOp.pre

\* C9's case: an actor changed the secret after the delivered snapshot was
\* taken, and the Update for the snapshot was rejected.
C9_Witness ==
  /\ Called
  /\ lastOp.outcome = "update"
  /\ ~lastOp.accepted
  /\ lastOp.pre # NoSecret
  /\ lastOp.snap.ver < lastOp.pre.ver
  /\ HasRequest(lastOp.snap)
  /\ HasRequest(lastOp.pre)

\* C10: no call of SecretAdded ends in a panic, and the process stays alive
\* to handle the notifications that follow.
C10_NeverCrashes ==
  /\ ~crashed
  /\ Called => lastOp.outcome # "panic"

\* The snapshots the informer has to deliver to AddFunc and UpdateFunc.
Deliverable == {e.new : e \in Notifications("add") \cup Notifications("update")}

\* The call for this snapshot goes as far as generateSecret.
NeedsToken(secret) == GenerateTarget(secret).ok /\ RegenerateNeeded(secret)

\* C11: when rand.Int fails in any round of generateSecret, SecretAdded
\* returns without a token and without submitting anything, for every
\* snapshot it can be handed; after such a call the stored secret is what it
\* was (its Data, its regenerate annotation, no generated-at set by the call),
\* and the same snapshot delivered again is decided as before: it needs a
\* token again and, the random source working, gets a full one.
C11_GenerationFailureAbandons ==
  /\ \A secret \in Deliverable : \A j \in 1..secretLength :
       NeedsToken(secret) =>
         LET r == Reconcile(secret, secretLength, entropy, clock, FALSE, j) IN
         /\ r.outcome = "generr"
         /\ r.submit = NoSecret
         /\ r.token = <<>>
         /\ r.ticks = 0
         /\ r.read = j - 1
  /\ (Called /\ lastOp.outcome = "generr") =>
       /\ NeedsToken(lastOp.snap)
       /\ lastOp.submit = NoSecret
       /\ ~lastOp.accepted
       /\ lastOp.read < secretLength
       /\ lastOp.post = lastOp.pre
       /\ store[lastOp.name] = lastOp.pre
       /\ LET again == Reconcile(lastOp.snap, secretLength, entropy, clock, FALSE, 0)
          IN  /\ again.outcome = IF lastOp.snap.dataNil THEN "panic" ELSE "update"
              /\ Len(again.token) = secretLength

\* C11's case: the stored state of a secret with the regenerate annotation
\* was delivered and rand.Int failed in the last round, after runes had been
\* drawn.
C11_Witness ==
  /\ Called
  /\ lastOp.outcome = "generr"
  /\ lastOp.read > 0
  /\ lastOp.snap = store[lastOp.name]
  /\ HasRequest(lastOp.snap)
  /\ HasRequest(store[lastOp.name])
  /\ ~lastOp.snap.dataNil

\* The object is a snapshot after one complete update: the token under the
\* key the autogenerate annotation names, generated-at set, no regenerate
\* annotation.
CompleteUpdate(obj, token) ==
  /\ IsSettled(obj)
  /\ ~obj.dataNil
  /\ obj.ann[SecretGenerateAnnotation] \in DOMAIN obj.data
  /\ obj.data[obj.ann[SecretGenerateAnnotation]] = token
  /\ Len(token) = secretLength

\* C12: with two processes calling SecretAdded against the same server, at
\* most one Update is accepted per resourceVersion of a secret; an Update
\* that is not accepted changes nothing; an accepted one was sent for the
\* stored state and stores the sender's object whole; and a secret last
\* written by a controller is the object of exactly one accepted Update,
\* with that Update's token, which is no other Update's token.
C12_LosersFailCleanly ==
  /\ \A w1, w2 \in landed :
       (w1.name = w2.name /\ w1.base = w2.base) => w1 = w2
  /\ \A w1, w2 \in landed : w1.token = w2.token => w1 = w2
  /\ \A w \in landed : CompleteUpdate(w.obj, w.token)
  /\ (Called /\ lastOp.outcome = "update" /\ ~lastOp.accepted) =>
       /\ lastOp.post = lastOp.pre
       /\ store[lastOp.name] = lastOp.pre
  /\ (Called /\ lastOp.accepted) =>
       /\ lastOp.snap = lastOp.pre
       /\ lastOp.post = [lastOp.submit EXCEPT !.ver = lastOp.post.ver]
       /\ store[lastOp.name] = lastOp.post
       /\ CompleteUpdate(lastOp.post, lastOp.token)
  /\ \A n \in Names :
       sinceExt[n] > 0 =>
         /\ store[n] # NoSecret
         /\ Cardinality({w \in landed : w.obj = store[n]}) = 1
         /\ \A w \in landed :
              (w.name = n /\ w.obj # store[n]) =>
                store[n].data[store[n].ann[SecretGenerateAnnotation]] # w.token

\* C12's case: both processes were handed the same resourceVersion of a
\* secret; the Update of one was accepted and is the stored state, the Update
\* of the other was sent and rejected.
C12_Witness ==
  /\ Called
  /\ lastOp.outcome = "update"
  /\ ~lastOp.accepted
  /\ \E w \in landed :
       /\ w.name = lastOp.name
       /\ w.base = lastOp.snap.ver
       /\ w.by # lastOp.by
       /\ store[lastOp.name] = w.obj

\* Annotations for every combination of the three control annotations being
\* there or not, with empty and with other values.
AnnotationCases ==
  LET keys == {SecretGenerateAnnotation, SecretGeneratedAtAnnotation,
               SecretRegenerateAnnotation}
  IN  {[k \in present |-> values[k]] :
         present \in SUBSET keys, values \in [keys -> {"", "password"}]}

\* The decision: the autogenerate annotation is there, and generated-at is
\* missing or the regenerate annotation is there.
Regenerates(ann) ==
  /\ SecretGenerateAnnotation \in DOMAIN ann
  /\ \/ SecretGeneratedAtAnnotation \notin DOMAIN ann
     \/ SecretRegenerateAnnotation \in DOMAIN ann

\* C13: SecretAdded generates a token and submits an Update exactly when
\* the snapshot has the autogenerate annotation and lacks generated-at or has
\* the regenerate annotation, the keys' existence deciding and not their
\* values: for all combinations of the three annotations, and for every call
\* made; a call that regenerates reads the random source for one token and
\* submits one object, also when both generated-at is missing and the
\* regenerate annotation is there.
C13_DecisionTable ==
  /\ \A ann \in AnnotationCases :
       LET secret == Secret("default/db", ann, FALSE,
                            [k \in {"username"} |-> ExtValue], 1)
           r == Reconcile(secret, secretLength, entropy, clock, FALSE, 0)
       IN  IF Regenerates(ann)
             THEN /\ r.outcome = "update"
                  /\ r.read = secretLength
                  /\ Len(r.token) = secretLength
                  /\ r.ticks = 1
                  /\ r.submit # NoSecret
                  /\ r.submit.data[ann[SecretGenerateAnnotation]] = r.token
             ELSE /\ r.outcome \in {"unmanaged", "settled"}
                  /\ r.read = 0
                  /\ r.token = <<>>
                  /\ r.submit = NoSecret
  /\ Called =>
       /\ Regenerates(lastOp.snap.ann) <=>
            lastOp.outcome \in {"copyerr", "generr", "panic", "update"}
       /\ lastOp.read <= secretLength
       /\ lastOp.outcome = "update" =>
            /\ lastOp.read = secretLength
            /\ Len(lastOp.token) = secretLength
            /\ lastOp.ticks = 1
            /\ lastOp.submit # NoSecret

\* C13's case: a snapshot with the autogenerate annotation, without
\* generated-at and with a regenerate annotation of empty value was
\* delivered, and one token was generated and stored for it.
C13_Witness ==
  /\ Called
  /\ IsManaged(lastOp.snap)
  /\ ~HasGeneratedAt(lastOp.snap)
  /\ HasRequest(lastOp.snap)
  /\ lastOp.snap.ann[SecretRegenerateAnnotation] = ""
  /\ lastOp.outcome = "update"
  /\ lastOp.accepted
  /\ lastOp.read = secretLength

\* C14: one call of a handler reads the random source for one token at
\* most, reads the clock once at most and has at most one Update accepted;
\* the random source and the clock are read by handler calls alone, each of
\* them a delivery of a notification; a call whose generateSecret failed has
\* drawn less than a token, read no clock and stored nothing; a call whose
\* Update was not accepted has drawn one token, read the clock once and
\* stored nothing.
C14_NoInlineRetry ==
  [][ /\ entropy' - entropy <= secretLength
      /\ clock' - clock <= 1
      /\ \A n \in Names : revision'[n] - revision[n] <= 1
      /\ (entropy' # entropy \/ clock' # clock) =>
           /\ lastOp'.outcome # "none"
           /\ lastOp'.event \in feed
           /\ lastOp'.event.type \in {"add", "update"}
           /\ lastOp'.read = entropy' - entropy
           /\ lastOp'.ticks = clock' - clock
      /\ (lastOp' # lastOp /\ lastOp'.outcome = "generr") =>
           /\ entropy' - entropy < secretLength
           /\ clock' = clock
           /\ store' = store
           /\ revision' = revision
      /\ (lastOp' # lastOp /\ lastOp'.outcome = "update" /\ ~lastOp'.accepted) =>
           /\ entropy' - entropy = secretLength
           /\ clock' - clock = 1
           /\ store' = store
           /\ revision' = revision
    ]_vars

\* C14's case: the stored state of a secret was delivered, the Update for it
\* failed, and the call has returned with the secret still in need of a
\* token.
C14_Witness ==
  /\ Called
  /\ lastOp.outcome = "update"
  /\ ~lastOp.accepted
  /\ lastOp.snap = lastOp.pre
  /\ store[lastOp.name] = lastOp.snap
  /\ NeedsToken(store[lastOp.name])
  /\ entropy = secretLength

\* C15: every call of SecretAdded is made for a notification of a creation
\* or of an update, never for one of a deletion, and it is given the
\* notification's new object: the created secret, or the secret as the update
\* left it, not as it was before.
C15_HandlersDispatch ==
  Called =>
    /\ lastOp.event \in feed
    /\ lastOp.event.type \in {"add", "update"}
    /\ lastOp.event.new # NoSecret
    /\ lastOp.snap = lastOp.event.new
    /\ lastOp.event.type = "update" => lastOp.snap # lastOp.event.old

\* C15's case: the notification of a secret's creation was reconciled and
\* settled the secret; an actor then added the regenerate annotation, and
\* the notification of that update, whose old object is settled and whose
\* new one is not, was reconciled and led to an accepted Update.
C15_Witness ==
  /\ Called
  /\ lastOp.event.type = "update"
  /\ IsSettled(lastOp.event.old)
  /\ HasRequest(lastOp.event.new)
  /\ lastOp.outcome = "update"
  /\ lastOp.accepted
  /\ \E w \in landed :
       /\ w.obj = lastOp.event.old
       /\ \E a \in Notifications("add") : a.new.name = w.name /\ a.new.ver = w.base

\* C16: an Update is accepted only when the snapshot it was made from is
\* the stored object, so an accepted Update removes a regenerate annotation
\* only if the snapshot carried it; when the stored secret carries a
\* regenerate annotation the snapshot lacks, the call stores nothing, and the
\* stored secret keeps the annotation and will get a token when it is
\* delivered.
C16_RequestNotLost ==
  /\ (Called /\ lastOp.accepted) =>
       /\ lastOp.snap = lastOp.pre
       /\ HasRequest(lastOp.pre) => HasRequest(lastOp.snap)
  /\ (Called /\ HasRequest(lastOp.pre) /\ ~HasRequest(lastOp.snap)) =>
       /\ ~lastOp.accepted
       /\ lastOp.post = lastOp.pre
       /\ store[lastOp.name] = lastOp.pre
       /\ HasRequest(store[lastOp.name])
       /\ IsManaged(store[lastOp.name]) => NeedsToken(store[lastOp.name])

\* C16's case: a secret without generated-at was created, an actor added the
\* regenerate annotation, then the snapshot of the creation was delivered
\* and the Update made from it was sent and rejected.
C16_Witness ==
  /\ Called
  /\ lastOp.outcome = "update"
  /\ ~lastOp.accepted
  /\ ~HasRequest(lastOp.snap)
  /\ lastOp.pre # NoSecret
  /\ lastOp.snap.ver < lastOp.pre.ver
  /\ HasRequest(lastOp.pre)
  /\ IsManaged(lastOp.pre)
  /\ HasRequest(store[lastOp.name])

\* C17: after a write by another actor to a secret, at most one Update of
\* the controller is accepted for it until another actor writes again,
\* whatever notifications are delivered and however often: an Update is never
\* accepted over an object the controller stored, after an accepted Update
\* the secret is settled, and an Update for a snapshot without generated-at
\* is accepted only over a secret without it and leaves it with one.
C17_Quiescence ==
  /\ \A n \in Names :
       /\ sinceExt[n] <= 1
       /\ sinceExt[n] = 1 => (store[n] \in engineWrote /\ IsSettled(store[n]))
  /\ (Called /\ lastOp.accepted) =>
       /\ lastOp.pre \notin engineWrote
       /\ sinceExt[lastOp.name] = 1
       /\ ~HasGeneratedAt(lastOp.snap) =>
            /\ ~HasGeneratedAt(lastOp.pre)
            /\ HasGeneratedAt(store[lastOp.name])

\* C17's case: the controller has settled a secret, and the snapshot taken
\* before that, without generated-at, was delivered once more: the Update
\* made from it was rejected.
C17_Witness ==
  /\ Called
  /\ lastOp.outcome = "update"
  /\ ~lastOp.accepted
  /\ ~HasGeneratedAt(lastOp.snap)
  /\ sinceExt[lastOp.name] = 1
  /\ lastOp.pre \in engineWrote
  /\ lastOp.snap.ver < lastOp.pre.ver
  /\ store[lastOp.name] = lastOp.pre

\* C18: when SecretAdded has returned (or panicked), the object it was
\* given, which the informer's cache holds, has the Data and the annotations
\* it had when the call began, whether the call returned early, failed to
\* copy, failed to generate, or sent an Update that was accepted or not: the
\* object it submits is another one; and the random source is read only by
\* calls for snapshots that need a token, and not before the copy is made.
C18_SnapshotNotMutated ==
  Called =>
    /\ lastOp.cached = lastOp.snap
    /\ lastOp.cached.ann = lastOp.event.new.ann
    /\ lastOp.cached.data = lastOp.event.new.data
    /\ lastOp.outcome = "update" =>
         /\ lastOp.submit.ann # lastOp.cached.ann
         /\ lastOp.submit.data # lastOp.cached.data
    /\ lastOp.outcome \in {"unmanaged", "settled", "copyerr"} =>
         /\ lastOp.read = 0
         /\ lastOp.token = <<>>
    /\ (lastOp.read > 0 \/ lastOp.token # <<>>) => NeedsToken(lastOp.snap)

\* C18's case: an Update was accepted for a snapshot that carried the
\* regenerate annotation and a value under the key to generate, so the copy
\* lost an annotation, got one and had a Data value replaced.
C18_Witness ==
  /\ Called
  /\ lastOp.accepted
  /\ HasRequest(lastOp.snap)
  /\ HasRequest(lastOp.cached)
  /\ ~HasGeneratedAt(lastOp.cached)
  /\ ~HasRequest(lastOp.submit)
  /\ lastOp.snap.ann[SecretGenerateAnnotation] \in DOMAIN lastOp.snap.data
  /\ lastOp.cached.data[lastOp.snap.ann[SecretGenerateAnnotation]] = ExtValue

====
